---- MODULE Spec2Model ----
(***************************************************************************)
(* A model of package currly: the request template (curlTemplate), the     *)
(* Arguments (PathArg, QueryArg, JSONBodyArg), the CurlFunc closure that   *)
(* Build returns, with the Connector and the caller as the environment.    *)
(* Strings are sequences of one-character strings, so that URL assembly    *)
(* and escaping are computed character by character.                       *)
(***************************************************************************)
EXTENDS Naturals, Sequences, FiniteSets, TLC

\* ------------------------------------------------------------------ bounds

\* The longest argument list a caller passes to one invocation, when the
\* invocations follow each other and when they run concurrently.
MaxArgs == 2
MaxConcArgs == 1

\* The number of invocations of the CurlFunc the callers make in one run.
MaxCalls == 2
\* Builder steps called in a run.
MaxSteps == 8
\* Path Variables, and query Variables, of a urlTemplate given to urlString.
MaxVars == 2

\* ----------------------------------------------------------------- strings

Str_id == <<"i", "d">>
Str_q == <<"q">>
Str_1 == <<"1">>
Str_a == <<"a">>
Str_b == <<"b", " ">>
Str_localhost == <<"l", "o", "c", "a", "l", "h", "o", "s", "t">>
Str_http == <<"h", "t", "t", "p">>
Str_https == <<"h", "t", "t", "p", "s">>
Str_GET == <<"G", "E", "T">>
Str_POST == <<"P", "O", "S", "T">>
Str_ContentType ==
  <<"C", "o", "n", "t", "e", "n", "t", "-", "T", "y", "p", "e">>
Str_JSONContentType == <<"application/json; charset=utf-8">>
Str_Authorization == <<"Authorization">>
Str_textPlain == <<"text/plain">>
Str_u == <<"u">>
Str_p == <<"p">>

\* The names and values the callers pass to PathArg and QueryArg.
ArgNames == {Str_id, Str_q}
ArgValues == {Str_a, Str_b}

\* The goroutines that call the CurlFunc.
Procs == {1, 2}

\* -------------------------------------------------------------- nil values

NoError == [kind |-> "nil", name |-> <<>>, value |-> <<>>]
NilBody == [nil |-> TRUE, bytes |-> <<>>]
NilHeader == [nil |-> TRUE, kv |-> <<>>]
NilExtractor == "nil"
NoCredentials == [username |-> <<>>, password |-> <<>>]

\* ---------------------------------------------------------------- variable

\* func (ps *pathSegment) / (pp *pathParam) / (qs *querySegment) /
\* (qp *queryParam): the four implementations of interface variable.
pathSegment(name) == [kind |-> "pathSegment", name |-> name, value |-> <<>>]
pathParam(name) == [kind |-> "pathParam", name |-> name, value |-> <<>>]
querySegment(name, value) ==
  [kind |-> "querySegment", name |-> name, value |-> value]
queryParam(name) == [kind |-> "queryParam", name |-> name, value |-> <<>>]

varName(v) == v.name

\* A bindTo that accepts only while the parameter has no value yet.
CanBindOnce(v) == v.kind \in {"pathParam", "queryParam"} /\ v.value = <<>>

\* bindTo's result: pathSegment and querySegment refuse, the params accept.
CanBind(v) == v.kind \in {"pathParam", "queryParam"}

\* bindTo's effect on the variable it is called on.
bindTo(v, value) == IF CanBind(v) THEN [v EXCEPT !.value = value] ELSE v

\* copy(): a param is copied by value, a segment returns itself (it has no
\* field that is ever assigned, so sharing it is not observable).
copyVariable(v) == v

copyVariables(vs) == [i \in 1..Len(vs) |-> copyVariable(vs[i])]

\* ---------------------------------------------------------------- template

\* type curlTemplate / type urlTemplate / type credentials, and Builder(c):
\* the zero template. The connector is the environment (see Send).
Builder ==
  [method |-> <<>>,
   urlTemplate |-> [scheme |-> <<>>, host |-> <<>>, port |-> 0,
                    path |-> <<>>, query |-> <<>>],
   header |-> NilHeader,
   credentials |-> NoCredentials,
   body |-> NilBody,
   resultExtractor |-> NilExtractor,
   error |-> NoError]

\* The builder steps: each works on its value receiver, a copy, and returns
\* it.
Method(ct, method) == [ct EXCEPT !.method = method]
GET(ct) == Method(ct, Str_GET)
POST(ct) == Method(ct, Str_POST)
HTTP(ct) == [ct EXCEPT !.urlTemplate.scheme = Str_http]
HTTPS(ct) == [ct EXCEPT !.urlTemplate.scheme = Str_https]
Host(ct, host) == [ct EXCEPT !.urlTemplate.host = host]
Localhost(ct) == Host(ct, Str_localhost)
Port(ct, port) == [ct EXCEPT !.urlTemplate.port = port]
PathSegment(ct, name) ==
  [ct EXCEPT !.urlTemplate.path = Append(@, pathSegment(name))]
PathParam(ct, name) ==
  [ct EXCEPT !.urlTemplate.path = Append(@, pathParam(name))]
QuerySegment(ct, name, value) ==
  [ct EXCEPT !.urlTemplate.query = Append(@, querySegment(name, value))]
QueryParam(ct, name) ==
  [ct EXCEPT !.urlTemplate.query = Append(@, queryParam(name))]
Header(ct, header) == [ct EXCEPT !.header = header]
Credentials(ct, username, password) ==
  [ct EXCEPT !.credentials = [username |-> username, password |-> password]]
ResultExtractor(ct, r) == [ct EXCEPT !.resultExtractor = r]

\* copyHeader: a new map with every value list copied; never nil.
copyHeader(h) == [nil |-> FALSE, kv |-> h.kv]

copyURLTemplate(ut) ==
  [ut EXCEPT !.path = copyVariables(ut.path),
             !.query = copyVariables(ut.query)]

copyCurlTemplate(ct) ==
  [ct EXCEPT !.urlTemplate = copyURLTemplate(ct.urlTemplate),
             !.header = copyHeader(ct.header)]

\* ------------------------------------------------------------ URL assembly

Unreserved ==
  {"a", "b", "c", "d", "e", "f", "g", "h", "i", "j", "k", "l", "m", "n", "o",
   "p", "q", "r", "s", "t", "u", "v", "w", "x", "y", "z", "0", "1", "2", "3",
   "4", "5", "6", "7", "8", "9", "-", "_", ".", "~"}

\* net/url's "%XX" for the other characters of the model's alphabet.
HexOf(c) ==
  CASE c = " " -> <<"%", "2", "0">>
    [] c = "/" -> <<"%", "2", "F">>
    [] c = "&" -> <<"%", "2", "6">>
    [] c = "=" -> <<"%", "3", "D">>
    [] c = "?" -> <<"%", "3", "F">>
    [] c = "+" -> <<"%", "2", "B">>
    [] c = "%" -> <<"%", "2", "5">>
    [] c = ":" -> <<"%", "3", "A">>
    [] OTHER -> <<"%", "X", "X">>

\* url.PathEscape, one character: of the reserved characters a path segment
\* keeps $ & + : = @ and escapes / ; , ?
PathEscapeChar(c) ==
  IF c \in Unreserved \cup {"$", "&", "+", ":", "=", "@"}
  THEN <<c>> ELSE HexOf(c)

\* url.QueryEscape, one character: a space becomes +, every reserved
\* character is escaped.
QueryEscapeChar(c) ==
  IF c \in Unreserved THEN <<c>>
  ELSE IF c = " " THEN <<"+">> ELSE HexOf(c)

RECURSIVE PathEscape(_)
PathEscape(s) ==
  IF s = <<>> THEN <<>> ELSE PathEscapeChar(Head(s)) \o PathEscape(Tail(s))

RECURSIVE QueryEscape(_)
QueryEscape(s) ==
  IF s = <<>> THEN <<>> ELSE QueryEscapeChar(Head(s)) \o QueryEscape(Tail(s))

\* String() of the four variables.
String(v) ==
  CASE v.kind = "pathSegment" -> v.name
    [] v.kind = "pathParam" ->
         IF Len(v.value) = 0 THEN <<>> ELSE PathEscape(v.value)
    [] v.kind = "querySegment" ->
         QueryEscape(v.name) \o <<"=">> \o QueryEscape(v.value)
    [] v.kind = "queryParam" ->
         IF Len(v.value) = 0 THEN <<>>
         ELSE QueryEscape(v.name) \o <<"=">> \o QueryEscape(v.value)

Digit(d) == <<"0", "1", "2", "3", "4", "5", "6", "7", "8", "9">>[d + 1]

\* strconv.FormatUint(n, 10)
RECURSIVE FormatUint(_)
FormatUint(n) ==
  IF n < 10 THEN <<Digit(n)>>
  ELSE FormatUint(n \div 10) \o <<Digit(n % 10)>>

\* Every rendering of vs, empty or not, joined by sep.
RECURSIVE JoinAll(_, _, _)
JoinAll(vs, sep, acc) ==
  IF vs = <<>> THEN acc
  ELSE JoinAll(Tail(vs), sep,
               (IF Len(acc) > 0 THEN acc \o sep ELSE acc) \o String(Head(vs)))

\* The two loops of urlString: the non-empty renderings of vs, joined by sep.
RECURSIVE JoinNonEmpty(_, _, _)
JoinNonEmpty(vs, sep, acc) ==
  IF vs = <<>> THEN acc
  ELSE LET s == String(Head(vs))
       IN  JoinNonEmpty(Tail(vs), sep,
             IF Len(s) > 0
             THEN (IF Len(acc) > 0 THEN acc \o sep ELSE acc) \o s
             ELSE acc)

\* A port rendered whatever its value.
portStringAlways(port) == <<":">> \o FormatUint(port)

\* "if ut.port > 0 { url = url + ":" + strconv.FormatUint(...) }": what the
\* port adds to the URL.
portString(port) ==
  IF port > 0 THEN <<":">> \o FormatUint(port) ELSE <<>>

urlString(ut) ==
  LET base == ut.scheme \o <<":", "/", "/">> \o ut.host
      withPort == base \o portString(ut.port)
      path == JoinNonEmpty(ut.path, <<"/">>, <<>>)
      withPath == IF Len(path) > 0
                  THEN withPort \o <<"/">> \o path ELSE withPort
      query == JoinNonEmpty(ut.query, <<"&">>, <<>>)
  IN  IF Len(query) > 0 THEN withPath \o <<"?">> \o query ELSE withPath

\* http.NewRequest refuses a method that is not a token (here: that holds
\* a space); the URLs of this model all parse.
ValidMethod(method) == \A k \in 1..Len(method) : method[k] # " "
AssemblyError == [kind |-> "assembly", name |-> <<>>, value |-> <<>>]

\* A createRequest that looks at the username only.
createRequestAuthByUsername(ct) ==
  [err |-> IF ValidMethod(ct.method) THEN NoError ELSE AssemblyError,
   method |-> ct.method,
   url |-> urlString(ct.urlTemplate),
   body |-> ct.body,
   header |-> ct.header.kv,
   basicAuth |-> ct.credentials.username # <<>>,
   credentials |-> ct.credentials]

\* createRequest: method, URL and body as given to http.NewRequest, whose
\* error is returned; the template's header entries copied over, basic
\* auth when the credentials are not the zero pair.
createRequest(ct) ==
  [err |-> IF ValidMethod(ct.method) THEN NoError ELSE AssemblyError,
   method |-> ct.method,
   url |-> urlString(ct.urlTemplate),
   body |-> ct.body,
   header |-> ct.header.kv,
   basicAuth |-> ct.credentials # NoCredentials,
   credentials |-> ct.credentials]

\* --------------------------------------------------------------- Arguments

\* The Arg values: PathArg and QueryArg close over name and value;
\* JSONBodyArg closes over the caller's payload object and one sync.Once
\* (the model has one JSONBodyArg value, whose payload and Once are the
\* variables payload and onceDone).
PathArg(name, value) == [type |-> "PathArg", name |-> name, value |-> value]
QueryArg(name, value) == [type |-> "QueryArg", name |-> name, value |-> value]
JSONBodyArg == [type |-> "JSONBodyArg", name |-> <<>>, value |-> <<>>]

BindArgs ==
  {PathArg(n, v) : n \in ArgNames, v \in ArgValues}
    \cup {QueryArg(Str_q, v) : v \in ArgValues}
JSONArgs == {JSONBodyArg}
Args == BindArgs \cup JSONArgs

RECURSIVE SeqsUpTo(_, _)
SeqsUpTo(S, n) ==
  IF n = 0 THEN {<<>>}
  ELSE LET shorter == SeqsUpTo(S, n - 1)
       IN  shorter \cup {Append(q, x) : q \in shorter, x \in S}

\* The argument lists the callers pass: any Arguments when the invocations
\* run concurrently, PathArgs and QueryArgs, or the JSONBodyArg, in the
\* specifications that look at the one or the other.
ArgLists == SeqsUpTo(Args, MaxConcArgs)
BindArgLists == SeqsUpTo(BindArgs, MaxArgs)
JSONArgLists == SeqsUpTo(JSONArgs, MaxConcArgs)

\* The payload objects a caller hands to JSONBodyArg: a map with a title,
\* which may also hold a channel (a value json.Marshal cannot encode).
Str_Hi == <<"H", "i">>
Str_Yo == <<"Y", "o">>
Payloads ==
  {[title |-> Str_Hi, chan |-> FALSE],
   [title |-> Str_Yo, chan |-> FALSE],
   [title |-> Str_Hi, chan |-> TRUE]}

BindError(list, name, value) == [kind |-> list, name |-> name, value |-> value]
MarshalError == [kind |-> "json", name |-> <<>>, value |-> <<>>]

\* json.Marshal of a payload: the bytes of {"title":"..."} or
\* an UnsupportedTypeError.
Marshal(p) ==
  IF p.chan THEN [bs |-> <<>>, err |-> MarshalError]
  ELSE [bs |-> <<"{", "\"", "t", "i", "t", "l", "e", "\"", ":", "\"">>
                 \o p.title \o <<"\"", "}">>,
        err |-> NoError]

\* A loop that stops at the first variable of that name, bindable or not.
RECURSIVE FirstNamed(_, _, _)
FirstNamed(vs, name, i) ==
  IF i > Len(vs) THEN 0
  ELSE IF varName(vs[i]) = name THEN i
  ELSE FirstNamed(vs, name, i + 1)

\* The loop of PathArg and QueryArg: the index of the first variable of vs
\* with that name whose bindTo succeeds, 0 when the loop runs off the end.
RECURSIVE FirstBound(_, _, _)
FirstBound(vs, name, i) ==
  IF i > Len(vs) THEN 0
  ELSE IF varName(vs[i]) = name /\ CanBind(vs[i]) THEN i
  ELSE FirstBound(vs, name, i + 1)

\* The argFunc of PathArg on the snapshot ct: the snapshot after it and the
\* error it returns.
applyPathArg(ct, name, value) ==
  LET i == FirstBound(ct.urlTemplate.path, name, 1)
  IN  IF i > 0
      THEN [ct |-> [ct EXCEPT !.urlTemplate.path[i] = bindTo(@, value)],
            err |-> NoError]
      ELSE [ct |-> ct, err |-> BindError("path", name, value)]

\* The argFunc of QueryArg.
applyQueryArg(ct, name, value) ==
  LET i == FirstBound(ct.urlTemplate.query, name, 1)
  IN  IF i > 0
      THEN [ct |-> [ct EXCEPT !.urlTemplate.query[i] = bindTo(@, value)],
            err |-> NoError]
      ELSE [ct |-> ct, err |-> BindError("query", name, value)]

\* A Do that runs its function in every application.
OnceDoAlways(done, p) ==
  [bs |-> Marshal(p).bs, err |-> Marshal(p).err, ran |-> TRUE]

\* once.Do(func() { bs, err = json.Marshal(body) }) in one application of
\* the JSONBodyArg: bs and err are variables of that application, nil
\* before Do; only the application that finds the Once not done runs the
\* function and has them assigned.
OnceDo(done, p) ==
  IF done THEN [bs |-> <<>>, err |-> NoError, ran |-> FALSE]
  ELSE [bs |-> Marshal(p).bs, err |-> Marshal(p).err, ran |-> TRUE]

\* http.Header.Set
HeaderSet(kv, key, value) ==
  [k \in DOMAIN kv \cup {key} |-> IF k = key THEN <<value>> ELSE kv[k]]

\* The argFunc of JSONBodyArg after once.Do, with bs and err as Do left them.
applyJSONBodyArg(ct, bs, err) ==
  IF err # NoError THEN [ct |-> ct, err |-> err]
  ELSE LET h == IF ct.header.nil THEN [nil |-> FALSE, kv |-> <<>>]
                ELSE ct.header
       IN  [ct |-> [ct EXCEPT
                      !.header = [h EXCEPT
                                    !.kv = HeaderSet(h.kv, Str_ContentType,
                                                     Str_JSONContentType)],
                      !.body = [nil |-> FALSE, bytes |-> bs]],
            err |-> NoError]

\* a.applyTo(&ct) for the Arg a, given what once.Do left in bs and err.
applyTo(a, ct, bs, err) ==
  CASE a.type = "PathArg" -> applyPathArg(ct, a.name, a.value)
    [] a.type = "QueryArg" -> applyQueryArg(ct, a.name, a.value)
    [] a.type = "JSONBodyArg" -> applyJSONBodyArg(ct, bs, err)

\* ------------------------------------------------- Connector and extractors

Str_success ==
  <<"{", "\"", "s", "u", "c", "c", "e", "s", "s", "\"", ":", " ", "t", "r",
    "u", "e", "}">>
Str_oops == <<"o", "o", "p", "s">>

\* What the Connector's Send may return: an error, or a response with one
\* of these status codes and bodies.
StatusCodes == {200}
RespBodies == {Str_success, Str_oops}
NoResponse == [status |-> 0, body |-> <<>>]
Responses == [status : StatusCodes, body : RespBodies]
TransportError == [kind |-> "transport", name |-> <<>>, value |-> <<>>]
DecodingError == [kind |-> "decoding", name |-> <<>>, value |-> <<>>]

\* The response bodies json.Indent's scanner accepts.
ValidJSON(bs) == bs = Str_success

RECURSIVE Spaces(_)
Spaces(depth) == IF depth = 0 THEN <<>> ELSE <<" ", " ">> \o Spaces(depth - 1)

\* json.Indent(buf, bs, "", "  ") on valid JSON: white space outside strings
\* is dropped, a line break and the indentation follow each opening bracket
\* and comma and precede each closing bracket, a space follows each colon.
RECURSIVE Indent(_, _, _, _)
Indent(src, depth, needIndent, inString) ==
  IF src = <<>> THEN <<>>
  ELSE
    LET c == Head(src)
        rest == Tail(src)
    IN  IF inString THEN <<c>> \o Indent(rest, depth, needIndent, c # "\"")
        ELSE IF c \in {" ", "\t", "\r", "\n"}
        THEN Indent(rest, depth, needIndent, FALSE)
        ELSE
          LET open == needIndent /\ c \notin {"]", "}"}
              d == IF open THEN depth + 1 ELSE depth
              pre == IF open THEN <<"\n">> \o Spaces(d) ELSE <<>>
          IN  CASE c \in {"{", "["} ->
                     pre \o <<c>> \o Indent(rest, d, TRUE, FALSE)
                [] c = "," ->
                     pre \o <<c, "\n">> \o Spaces(d)
                       \o Indent(rest, d, FALSE, FALSE)
                [] c = ":" ->
                     pre \o <<c, " ">> \o Indent(rest, d, FALSE, FALSE)
                [] c \in {"}", "]"} ->
                     IF needIndent
                     THEN <<c>> \o Indent(rest, depth, FALSE, FALSE)
                     ELSE <<"\n">> \o Spaces(depth - 1) \o <<c>>
                            \o Indent(rest, depth - 1, FALSE, FALSE)
                [] OTHER ->
                     pre \o <<c>> \o Indent(rest, d, FALSE, c = "\"")

\* The three extractors' Result on a response (ioutil.ReadAll of the test
\* Connector's in-memory body does not fail).
Result(extractor, r) ==
  CASE extractor = "JSONStringExtractor" ->
         IF ValidJSON(r.body)
         THEN [value |-> Indent(r.body, 0, FALSE, FALSE), err |-> NoError]
         ELSE [value |-> <<>>, err |-> DecodingError]
    [] OTHER -> [value |-> r.body, err |-> NoError]

\* -------------------------------------------------------------------- state

VARIABLES
  built,      \* the template Build was called on (never assigned afterwards)
  ct,         \* the variable ct the CurlFunc closure captured
  payload,    \* the caller's payload object the JSONBodyArg closes over
  payload0,   \* that payload as it was when JSONBodyArg(body) returned
  onceDone,   \* the JSONBodyArg's sync.Once: Do has run its function
  encodes,    \* how often json.Marshal ran inside the JSONBodyArg
  encoded,    \* what that json.Marshal returned (bs, err), once it has run
  pc,         \* where each goroutine is in the CurlFunc
  args,       \* the invocation's args that complete's loop has yet to reach
  snap,       \* complete's local ct, the invocation's snapshot
  own,        \* complete(built, args): the snapshot the invocation's own
              \* Arguments make of the template as it was at Build
  given,      \* the args the invocation was called with
  failedArg,  \* the Arg whose error ended complete's loop
  applied,    \* the args complete's loop has applied, in the order applied
  usedJSON,   \* complete's loop applied the JSONBodyArg
  req,        \* the request createRequest returned
  resp,       \* the response Send returned
  ret,        \* the invocation's return values
  calls,      \* invocations begun
  sendCount,  \* calls of the Connector's Send
  lastSent,   \* the request of the latest Send
  onlyFull,   \* every invocation so far bound all path parameters, only
  extracted,  \* calls of the Result Extractor in each goroutine's invocation
  closed,     \* calls of resp.Body.Close() in each goroutine's invocation
  steps,      \* the builder step values the caller holds
  heap,       \* the backing arrays of the held values' path and query slices
  nsteps,     \* builder steps called
  declPath,   \* the path Variables declared on the way to each held value
  declQuery,  \* the query Variables declared on the way to each held value
  early,      \* the method, scheme and host steps on the way to each value
  credDecl,   \* Credentials was called on the way to each held value
  ut,         \* a urlTemplate, for urlString
  url         \* what urlString returned for it

vars ==
  <<built, ct, payload, payload0, onceDone, encodes, encoded, pc, args,
    snap, own, given, failedArg, applied, usedJSON, req, resp, ret, calls,
    sendCount, lastSent, onlyFull, extracted, closed, steps, heap, nsteps,
    declPath, declQuery, early, credDecl, ut, url>>

jsonVars == <<payload, payload0, onceDone, encodes, encoded>>
connVars == <<sendCount, lastSent>>
ghostVars == <<own, given, failedArg, applied, usedJSON>>
bodyVars == <<extracted, closed>>
curlVars ==
  <<built, ct, jsonVars, pc, args, snap, ghostVars, req, resp, ret, calls,
    connVars, onlyFull, bodyVars>>
buildVars ==
  <<steps, heap, nsteps, declPath, declQuery, early, credDecl>>
urlVars == <<ut, url>>
restVars == <<buildVars, urlVars>>

NoArg == [type |-> "none", name |-> <<>>, value |-> <<>>]
NoRequest == createRequest(Builder)
NoReturn == [status |-> 0, value |-> <<>>, hasValue |-> FALSE, err |-> NoError]
NotEncoded == [bs |-> <<>>, err |-> NoError, ran |-> FALSE]

\* The templates the model builds its CurlFunc from.
\*   https://localhost:17500/q/{id}?id=1&q={q}
Template1 ==
  QueryParam(
    QuerySegment(
      PathParam(
        PathSegment(Port(Localhost(HTTPS(GET(Builder))), 17500), Str_q),
        Str_id),
      Str_id, Str_1),
    Str_q)
\*   http://localhost/{id}/{q}
Template2 == PathParam(PathParam(Localhost(HTTP(POST(Builder))), Str_id), Str_q)
\*   https://localhost?q={q}, results as plain strings
Template3 ==
  ResultExtractor(QueryParam(Localhost(HTTPS(GET(Builder))), Str_q),
                  "PlainStringExtractor")

Templates == {Template1, Template2, Template3}

\* The template of TestBuildAndCallCurlWithSimpleURL:
\*   https://localhost:17500
TestTemplate == Port(Localhost(HTTPS(GET(Builder))), 17500)
\* A template whose method http.NewRequest refuses.
Str_badMethod == <<"G", " ", "T">>
BadMethodTemplate == Localhost(HTTP(Method(Builder, Str_badMethod)))
\* The test's template with Credentials(username, password) declared: both,
\* the password only, the username only.
CredTemplate == Credentials(TestTemplate, Str_u, Str_p)
PasswordTemplate == Credentials(TestTemplate, <<>>, Str_p)
UsernameTemplate == Credentials(TestTemplate, Str_u, <<>>)
\* The test's template with Credentials("", "") declared.
EmptyCredTemplate == Credentials(TestTemplate, <<>>, <<>>)
CredTemplates ==
  {CredTemplate, PasswordTemplate, UsernameTemplate, EmptyCredTemplate}
\* Template2 with Header(header) declared, header being the caller's map
\* {"Content-Type": ["text/plain"]}.
PlainHeader ==
  [nil |-> FALSE, kv |-> [k \in {Str_ContentType} |-> <<Str_textPlain>>]]
HeaderTemplate == Header(Template2, PlainHeader)
MixTemplates == {Template2, HeaderTemplate}

\* A template that declares names more than once:
\*   http://localhost/id/{id}/{id}?q=1&q={q}&q={q}
DupTemplate ==
  QueryParam(
    QueryParam(
      QuerySegment(
        PathParam(
          PathParam(PathSegment(Localhost(HTTP(GET(Builder))), Str_id), Str_id),
          Str_id),
        Str_q, Str_1),
      Str_q),
    Str_q)
SeqTemplates ==
  Templates \cup {TestTemplate, BadMethodTemplate, DupTemplate}
    \cup CredTemplates

\* The path parameters a template declares.
PathParams(t) ==
  {i \in 1..Len(t.urlTemplate.path) : t.urlTemplate.path[i].kind = "pathParam"}

\* An argument list of PathArgs only that names every path parameter of t,
\* each once, and nothing else.
FullPathBinding(t, as) ==
  /\ PathParams(t) # {}
  /\ Len(as) = Cardinality(PathParams(t))
  /\ \A j \in 1..Len(as) : as[j].type = "PathArg"
  /\ \A i \in PathParams(t) :
       \E j \in 1..Len(as) : as[j].name = t.urlTemplate.path[i].name
  /\ \A i, j \in PathParams(t) :
       i # j => t.urlTemplate.path[i].name # t.urlTemplate.path[j].name

\* complete's first statements on the template it was passed: the copy and
\* the default extractor.
\* complete without its default extractor.
completeCopyNoDefault(t) == copyCurlTemplate(t)

completeCopy(t) ==
  LET c == copyCurlTemplate(t)
  IN  IF c.resultExtractor = NilExtractor
      THEN [c EXCEPT !.resultExtractor = "JSONStringExtractor"]
      ELSE c

\* One iteration of complete's loop on the local ct: the Arg's error is
\* stored in it.
completeStep(a, c, bs, err) ==
  LET r == applyTo(a, c, bs, err)
  IN  IF r.err # NoError THEN [r.ct EXCEPT !.error = r.err] ELSE r.ct

\* ----------------------------------------------------- the builder's stages

\* The method sets of the stage interfaces.
pathPart == {"PathSegment", "PathParam"}
queryPart == {"QuerySegment", "QueryParam"}
headerPart == {"Header"}
credentialsPart == {"Credentials"}
resultExtractorPart == {"ResultExtractor"}
curlFuncPart == {"Build"}

DefineMethod == {"Method", "GET", "POST"}
DefineScheme == {"HTTP", "HTTPS"}
\* A DefineHost that had Build.
DefineHostBuildable == {"Host", "Localhost", "Build"}
DefineHost == {"Host", "Localhost"}
DefinePort ==
  pathPart \cup queryPart \cup headerPart \cup credentialsPart
    \cup resultExtractorPart \cup curlFuncPart \cup {"Port"}
BuildPath ==
  pathPart \cup queryPart \cup headerPart \cup credentialsPart
    \cup resultExtractorPart \cup curlFuncPart
BuildQuery ==
  queryPart \cup headerPart \cup credentialsPart \cup resultExtractorPart
    \cup curlFuncPart
SetCredentials == credentialsPart \cup resultExtractorPart \cup curlFuncPart
SetResultExtractor == resultExtractorPart \cup curlFuncPart
BuildCurl == curlFuncPart

\* The methods a value of the static type stage exposes.
MethodSet(stage) ==
  CASE stage = "DefineMethod" -> DefineMethod
    [] stage = "DefineScheme" -> DefineScheme
    [] stage = "DefineHost" -> DefineHost
    [] stage = "DefinePort" -> DefinePort
    [] stage = "BuildPath" -> BuildPath
    [] stage = "BuildQuery" -> BuildQuery
    [] stage = "SetCredentials" -> SetCredentials
    [] stage = "SetResultExtractor" -> SetResultExtractor
    [] stage = "BuildCurl" -> BuildCurl
    [] OTHER -> {}

\* The static type each builder method returns.
ReturnType(step) ==
  CASE step \in DefineMethod -> "DefineScheme"
    [] step \in DefineScheme -> "DefineHost"
    [] step \in DefineHost -> "DefinePort"
    [] step = "Port" -> "BuildPath"
    [] step \in pathPart -> "BuildPath"
    [] step \in queryPart -> "BuildQuery"
    [] step \in headerPart -> "SetCredentials"
    [] step \in credentialsPart -> "SetResultExtractor"
    [] step \in resultExtractorPart -> "BuildCurl"

\* ------------------------------------------------- slices of the held values

\* A held curlTemplate value's path and query are slices: a backing array
\* (0: none, the nil slice) and a length; the array's length is the
\* slice's capacity.
NilSlice == [arr |-> 0, len |-> 0]
NoVariable == [kind |-> "none", name |-> <<>>, value |-> <<>>]

Cap(h, sl) == IF sl.arr = 0 THEN 0 ELSE Len(h[sl.arr])
Elems(h, sl) == IF sl.arr = 0 THEN <<>> ELSE SubSeq(h[sl.arr], 1, sl.len)

\* The capacity append gives the array it allocates when a slice of
\* capacity cap is full (the gc runtime's growslice for these sizes).
growCap(cap) == IF cap = 0 THEN 1 ELSE 2 * cap

\* append(sl, v): within capacity the element is written into the slice's
\* own backing array, past its length; otherwise into a new, larger array
\* that holds a copy of the elements.
append(h, sl, v) ==
  IF sl.len < Cap(h, sl)
  THEN [heap |-> [h EXCEPT ![sl.arr][sl.len + 1] = v],
        slice |-> [arr |-> sl.arr, len |-> sl.len + 1]]
  ELSE LET old == Elems(h, sl)
           new == [k \in 1..growCap(Cap(h, sl)) |->
                     IF k <= sl.len THEN old[k]
                     ELSE IF k = sl.len + 1 THEN v ELSE NoVariable]
           free == {k \in 1..Len(h) : h[k] = <<>>}
           arr == IF free = {} THEN Len(h) + 1
                  ELSE CHOOSE k \in free : \A j \in free : k <= j
       IN  [heap |-> IF free = {} THEN Append(h, new)
                     ELSE [h EXCEPT ![arr] = new],
            slice |-> [arr |-> arr, len |-> sl.len + 1]]

\* Garbage collection: a backing array that no held slice refers to is
\* gone (its place in h is free).
Collect(h, st) ==
  [k \in 1..Len(h) |->
     IF \E s \in DOMAIN st : st[s].path.arr = k \/ st[s].query.arr = k
     THEN h[k] ELSE <<>>]

\* A value the caller holds: its static type, its curlTemplate fields, and
\* its two slices. NewBuilder is what Builder(c) returns.
NoStep == [stage |-> "none", ct |-> Builder, path |-> NilSlice,
           query |-> NilSlice]
NewBuilder == [stage |-> "DefineMethod", ct |-> Builder, path |-> NilSlice,
               query |-> NilSlice]
Holders == {1, 2}

\* The curlTemplate a held value is, its slices read out.
View(h, st) ==
  [st.ct EXCEPT !.urlTemplate.path = Elems(h, st.path),
                !.urlTemplate.query = Elems(h, st.query)]

\* What the caller passes to the builder's steps.
MethodCalls == {"GET"}
SchemeCalls == {"HTTPS"}
Ports == {17500}
PathDecls == {pathSegment(Str_q), pathParam(Str_id)}
QueryDecls == {querySegment(Str_id, Str_1), queryParam(Str_q)}
CredentialPairs ==
  {[username |-> <<>>, password |-> <<>>],
   [username |-> Str_u, password |-> Str_p]}
JSONHeader ==
  [nil |-> FALSE,
   kv |-> HeaderSet(<<>>, Str_ContentType, Str_JSONContentType)]

\* The state after Build returned the CurlFunc of one of the templates ts:
\* no invocation has begun.
CurlInit(ts) ==
  /\ built \in ts
  /\ ct = built
  /\ payload = [title |-> Str_Hi, chan |-> FALSE]
  /\ payload0 = payload
  /\ onceDone = FALSE
  /\ encodes = 0
  /\ encoded = NotEncoded
  /\ pc = [i \in Procs |-> "idle"]
  /\ args = [i \in Procs |-> <<>>]
  /\ snap = [i \in Procs |-> Builder]
  /\ own = [i \in Procs |-> Builder]
  /\ given = [i \in Procs |-> <<>>]
  /\ failedArg = [i \in Procs |-> NoArg]
  /\ applied = [i \in Procs |-> <<>>]
  /\ usedJSON = [i \in Procs |-> FALSE]
  /\ req = [i \in Procs |-> NoRequest]
  /\ resp = [i \in Procs |-> NoResponse]
  /\ ret = [i \in Procs |-> NoReturn]
  /\ calls = 0
  /\ sendCount = 0
  /\ lastSent = NoRequest
  /\ onlyFull = TRUE
  /\ extracted = [i \in Procs |-> 0]
  /\ closed = [i \in Procs |-> 0]

\* The caller holds Builder(c) and nothing else.
BuilderInit ==
  /\ steps = [s \in Holders |-> IF s = 1 THEN NewBuilder ELSE NoStep]
  /\ heap = <<>>
  /\ nsteps = 0
  /\ declPath = [s \in Holders |-> <<>>]
  /\ declQuery = [s \in Holders |-> <<>>]
  /\ early = [s \in Holders |-> <<>>]
  /\ credDecl = [s \in Holders |-> FALSE]

\* No urlTemplate is being assembled.
UrlIdle ==
  /\ ut = Builder.urlTemplate
  /\ url = <<>>

Init == CurlInit(Templates) /\ BuilderInit /\ UrlIdle

\* ------------------------------------------ the captured ct, read and written

\* The goroutines other than i that are storing to the captured ct
\* ("ct = complete(ct, args)" is an unsynchronised multi-word store).
Storing(i) == {j \in Procs \ {i} : pc[j] = "store"}

\* The templates whose fields a read of the captured ct by i may combine:
\* ct itself and what the concurrent stores are writing.
Sources(i) == {ct} \cup {snap[j] : j \in Storing(i)}

\* Every field-by-field combination of the templates S (the fields a
\* completed snapshot can differ in).
FieldMixes(S) ==
  {[ct EXCEPT !.urlTemplate.path = a.urlTemplate.path,
              !.urlTemplate.query = b.urlTemplate.query,
              !.header = c.header,
              !.body = d.body,
              !.resultExtractor = e.resultExtractor,
              !.error = f.error] :
     a \in S, b \in S, c \in S, d \in S, e \in S, f \in S}

\* What a read of the captured ct by goroutine i may return.
Observed(i) == FieldMixes(Sources(i))

\* ------------------------------------------------------------------ actions

\* A caller calls the CurlFunc with args, one of lists.
Call(i, lists) ==
  /\ pc[i] = "idle"
  /\ calls < MaxCalls
  /\ \E as \in lists :
       /\ args' = [args EXCEPT ![i] = as]
       /\ given' = [given EXCEPT ![i] = as]
       /\ onlyFull' = (onlyFull /\ FullPathBinding(built, as))
  /\ calls' = calls + 1
  /\ pc' = [pc EXCEPT ![i] = "complete"]
  /\ UNCHANGED <<built, ct, jsonVars, snap, own, failedArg, applied, usedJSON,
                 req, resp, ret, connVars,
                 bodyVars, restVars>>

\* complete, up to its loop: the captured ct is read (it is passed by
\* value), copied by copyCurlTemplate and given the default extractor.
Snapshot(i) ==
  /\ pc[i] = "complete"
  /\ \E seen \in Observed(i) : snap' = [snap EXCEPT ![i] = completeCopy(seen)]
  /\ own' = [own EXCEPT ![i] = completeCopy(built)]
  /\ pc' = [pc EXCEPT ![i] = IF Len(args[i]) = 0 THEN "store" ELSE "apply"]
  /\ UNCHANGED <<built, ct, jsonVars, args, given, failedArg, applied,
                 usedJSON, req, resp, ret, calls, connVars, onlyFull,
                 bodyVars, restVars>>

\* One iteration of complete's loop: the next Arg is applied to the
\* snapshot; its error ends the loop.
ApplyArg(i) ==
  /\ pc[i] = "apply"
  /\ LET a == Head(args[i])
         isJSON == a.type = "JSONBodyArg"
         do == IF isJSON THEN OnceDo(onceDone, payload) ELSE NotEncoded
         err == applyTo(a, snap[i], do.bs, do.err).err
     IN  /\ onceDone' = (onceDone \/ isJSON)
         /\ encodes' = IF do.ran THEN encodes + 1 ELSE encodes
         /\ encoded' = IF do.ran THEN do ELSE encoded
         /\ snap' = [snap EXCEPT ![i] = completeStep(a, @, do.bs, do.err)]
         /\ own' = [own EXCEPT ![i] = completeStep(a, @, do.bs, do.err)]
         /\ usedJSON' = [usedJSON EXCEPT ![i] = @ \/ isJSON]
         /\ applied' = [applied EXCEPT ![i] = Append(@, a)]
         /\ IF err # NoError
            THEN /\ failedArg' = [failedArg EXCEPT ![i] = a]
                 /\ args' = [args EXCEPT ![i] = <<>>]
                 /\ pc' = [pc EXCEPT ![i] = "store"]
            ELSE /\ failedArg' = failedArg
                 /\ args' = [args EXCEPT ![i] = Tail(@)]
                 /\ pc' = [pc EXCEPT ![i] =
                             IF Len(args[i]) = 1 THEN "store" ELSE "apply"]
  /\ UNCHANGED <<built, ct, payload, payload0, given, req, resp, ret, calls,
                 connVars, onlyFull,
                 bodyVars, restVars>>

\* "ct = complete(ct, args)": the snapshot is stored to the captured ct.
Store(i) ==
  /\ pc[i] = "store"
  /\ ct' = snap[i]
  /\ snap' = [snap EXCEPT ![i] = Builder]
  /\ pc' = [pc EXCEPT ![i] = "check"]
  /\ UNCHANGED <<built, jsonVars, args, ghostVars, req, resp, ret, calls,
                 connVars, onlyFull,
                 bodyVars, restVars>>

\* Two goroutines store to the captured ct at the same time: each field
\* ends up as one of them wrote it.
StoreRace(i, j) ==
  /\ i # j
  /\ pc[i] = "store"
  /\ pc[j] = "store"
  /\ ct' \in FieldMixes({snap[i], snap[j]})
  /\ snap' = [snap EXCEPT ![i] = Builder, ![j] = Builder]
  /\ pc' = [pc EXCEPT ![i] = "check", ![j] = "check"]
  /\ UNCHANGED <<built, jsonVars, args, ghostVars, req, resp, ret, calls,
                 connVars, onlyFull,
                 bodyVars, restVars>>

\* "if ct.error != nil": a read of the captured ct.
CheckError(i) ==
  /\ pc[i] = "check"
  /\ \E seen \in Observed(i) :
       pc' = [pc EXCEPT ![i] = IF seen.error # NoError THEN "fail" ELSE "create"]
  /\ UNCHANGED <<built, ct, jsonVars, args, snap, ghostVars, req, resp, ret,
                 calls, connVars, onlyFull,
                 bodyVars, restVars>>

\* "return 0, nil, ct.error": the captured ct is read again.
ReturnError(i) ==
  /\ pc[i] = "fail"
  /\ \E seen \in Observed(i) :
       ret' = [ret EXCEPT ![i] = [NoReturn EXCEPT !.err = seen.error]]
  /\ pc' = [pc EXCEPT ![i] = "done"]
  /\ UNCHANGED <<built, ct, jsonVars, args, snap, ghostVars, req, resp, calls,
                 connVars, onlyFull,
                 bodyVars, restVars>>

\* "req, err := createRequest(ct)": the captured ct is read.
CreateRequest(i) ==
  /\ pc[i] = "create"
  /\ \E seen \in Observed(i) :
       LET r == createRequest(seen)
       IN  IF r.err # NoError
           THEN /\ ret' = [ret EXCEPT ![i] = [NoReturn EXCEPT !.err = r.err]]
                /\ pc' = [pc EXCEPT ![i] = "done"]
                /\ req' = req
           ELSE /\ req' = [req EXCEPT ![i] = r]
                /\ pc' = [pc EXCEPT ![i] = "send"]
                /\ ret' = ret
  /\ UNCHANGED <<built, ct, jsonVars, args, snap, ghostVars, resp, calls,
                 connVars, onlyFull, bodyVars, restVars>>

\* A Send whose error does not end the invocation.
SendIgnoringError(i) ==
  /\ pc[i] = "send"
  /\ sendCount' = sendCount + 1
  /\ lastSent' = req[i]
  /\ \/ /\ ret' = [ret EXCEPT ![i] = [NoReturn EXCEPT !.err = TransportError]]
        /\ pc' = [pc EXCEPT ![i] = "extract"]
        /\ resp' = resp
     \/ /\ \E r \in Responses : resp' = [resp EXCEPT ![i] = r]
        /\ pc' = [pc EXCEPT ![i] = "extract"]
        /\ ret' = ret
  /\ UNCHANGED <<built, ct, jsonVars, args, snap, ghostVars, req, calls,
                 onlyFull, bodyVars, restVars>>

\* "resp, err := ct.connector.Send(req)": the Connector fails, and the
\* invocation returns its error, or answers.
Send(i) ==
  /\ pc[i] = "send"
  /\ sendCount' = sendCount + 1
  /\ lastSent' = req[i]
  /\ \/ /\ ret' = [ret EXCEPT ![i] = [NoReturn EXCEPT !.err = TransportError]]
        /\ pc' = [pc EXCEPT ![i] = "done"]
        /\ resp' = resp
     \/ /\ \E r \in Responses : resp' = [resp EXCEPT ![i] = r]
        /\ pc' = [pc EXCEPT ![i] = "extract"]
        /\ ret' = ret
  /\ UNCHANGED <<built, ct, jsonVars, args, snap, ghostVars, req, calls,
                 onlyFull,
                 bodyVars, restVars>>

\* A failed extraction returned without the status code.
ExtractDroppingStatus(i) ==
  /\ pc[i] = "extract"
  /\ \E seen \in Observed(i) :
       LET r == Result(seen.resultExtractor, resp[i])
       IN  ret' = [ret EXCEPT ![i] =
                     IF r.err # NoError
                     THEN [NoReturn EXCEPT !.err = r.err]
                     ELSE [status |-> resp[i].status, value |-> r.value,
                           hasValue |-> TRUE, err |-> NoError]]
  /\ extracted' = [extracted EXCEPT ![i] = @ + 1]
  /\ pc' = [pc EXCEPT ![i] = "close"]
  /\ UNCHANGED <<built, ct, jsonVars, args, snap, ghostVars, req, resp, calls,
                 connVars, onlyFull, closed, restVars>>

\* "ret, err := ct.resultExtractor.Result(resp)" and the return statement
\* that follows it, which sets the results: the captured ct is read for its
\* extractor. The deferred Close is still to run.
Extract(i) ==
  /\ pc[i] = "extract"
  /\ \E seen \in Observed(i) :
       LET r == Result(seen.resultExtractor, resp[i])
       IN  ret' = [ret EXCEPT ![i] =
                     IF r.err # NoError
                     THEN [status |-> resp[i].status, value |-> <<>>,
                           hasValue |-> FALSE, err |-> r.err]
                     ELSE [status |-> resp[i].status, value |-> r.value,
                           hasValue |-> TRUE, err |-> NoError]]
  /\ extracted' = [extracted EXCEPT ![i] = @ + 1]
  /\ pc' = [pc EXCEPT ![i] = "close"]
  /\ UNCHANGED <<built, ct, jsonVars, args, snap, ghostVars, req, resp, calls,
                 connVars, onlyFull, closed, restVars>>

\* A return that leaves the body open.
CloseNever(i) ==
  /\ pc[i] = "close"
  /\ pc' = [pc EXCEPT ![i] = "done"]
  /\ UNCHANGED <<built, ct, jsonVars, args, snap, ghostVars, req, resp, ret,
                 calls, connVars, onlyFull, bodyVars, restVars>>

\* "defer resp.Body.Close()", registered once Send has answered, runs as the
\* function returns.
Close(i) ==
  /\ pc[i] = "close"
  /\ closed' = [closed EXCEPT ![i] = @ + 1]
  /\ pc' = [pc EXCEPT ![i] = "done"]
  /\ UNCHANGED <<built, ct, jsonVars, args, snap, ghostVars, req, resp, ret,
                 calls, connVars, onlyFull, extracted, restVars>>

\* The invocation has returned: its frame is gone.
Return(i) ==
  /\ pc[i] = "done"
  /\ pc' = [pc EXCEPT ![i] = "idle"]
  /\ args' = [args EXCEPT ![i] = <<>>]
  /\ snap' = [snap EXCEPT ![i] = Builder]
  /\ own' = [own EXCEPT ![i] = Builder]
  /\ given' = [given EXCEPT ![i] = <<>>]
  /\ failedArg' = [failedArg EXCEPT ![i] = NoArg]
  /\ applied' = [applied EXCEPT ![i] = <<>>]
  /\ usedJSON' = [usedJSON EXCEPT ![i] = FALSE]
  /\ req' = [req EXCEPT ![i] = NoRequest]
  /\ resp' = [resp EXCEPT ![i] = NoResponse]
  /\ ret' = [ret EXCEPT ![i] = NoReturn]
  /\ extracted' = [extracted EXCEPT ![i] = 0]
  /\ closed' = [closed EXCEPT ![i] = 0]
  /\ UNCHANGED <<built, ct, jsonVars, calls, connVars, onlyFull, restVars>>

\* The caller changes the payload object it gave to JSONBodyArg.
Tamper ==
  /\ \E p \in Payloads \ {payload} : payload' = p
  /\ UNCHANGED <<built, ct, payload0, onceDone, encodes, encoded, pc, args,
                 snap, ghostVars, req, resp, ret, calls, connVars, onlyFull,
                 bodyVars, restVars>>

\* The CurlFunc's steps after the call.
Step(i) ==
  \/ Snapshot(i)
  \/ ApplyArg(i)
  \/ Store(i)
  \/ CheckError(i)
  \/ ReturnError(i)
  \/ CreateRequest(i)
  \/ Send(i)
  \/ Extract(i)
  \/ Close(i)
  \/ Return(i)

\* Goroutines calling the CurlFunc concurrently, with any Arguments.
Next ==
  \/ \E i \in Procs : Call(i, ArgLists)
  \/ \E i \in Procs : Step(i)
  \/ \E i, j \in Procs : StoreRace(i, j)
  \/ Tamper

Spec == Init /\ [][Next]_vars

\* One goroutine calling the CurlFunc with PathArgs and QueryArgs, one
\* invocation after the other.
BindNext ==
  \/ Call(1, BindArgLists)
  \/ Step(1)

BindSpec == Init /\ [][BindNext]_vars

\* One goroutine calling, one invocation after the other, a CurlFunc that
\* may also be the test's or one whose request cannot be created.
SeqInit == CurlInit(SeqTemplates) /\ BuilderInit /\ UrlIdle

SeqSpec == SeqInit /\ [][BindNext]_vars

\* The CurlFunc that is given the JSONBodyArg is the one built with POST():
\* the URL plays no part in what the JSONBodyArg does.
JSONInit == CurlInit({Template2}) /\ BuilderInit /\ UrlIdle

\* Goroutines calling the CurlFunc concurrently with the JSONBodyArg, and
\* the caller changing its payload.
JSONNext ==
  \/ \E i \in Procs : Call(i, JSONArgLists)
  \/ \E i \in Procs : Step(i)
  \/ \E i, j \in Procs : StoreRace(i, j)
  \/ Tamper

JSONSpec == JSONInit /\ [][JSONNext]_vars

\* One goroutine calling a CurlFunc built with POST(), one invocation after
\* the other, with any Arguments, and the caller changing the payload.
MixInit == CurlInit(MixTemplates) /\ BuilderInit /\ UrlIdle

MixNext ==
  \/ Call(1, ArgLists)
  \/ Step(1)
  \/ Tamper

MixSpec == MixInit /\ [][MixNext]_vars

\* ------------------------------------------------------ the builder's steps

\* The caller may call the method step on the value it holds in f and keep
\* the result in t: in f itself (the chain goes on, x = x.Step()), or in
\* the next holder that is free (a branch).
CanCall(f, t, step) ==
  /\ steps[f] # NoStep
  /\ t = f \/ (steps[t] = NoStep /\ \A u \in Holders : u < t => steps[u] # NoStep)
  /\ step \in MethodSet(steps[f].stage)
  /\ nsteps < MaxSteps

\* The caller keeps in t what the method step returned: the receiver's copy
\* with the fields newct and the slices path and query.
Keep(t, step, newct, path, query, h) ==
  /\ steps' = [steps EXCEPT ![t] = [stage |-> ReturnType(step), ct |-> newct,
                                    path |-> path, query |-> query]]
  /\ heap' = Collect(h, steps')
  /\ nsteps' = nsteps + 1

\* What was declared on the way to the value kept in t: what was declared
\* on the way to f, and this step's declaration.
Declared(f, t, path, query, stage, cred) ==
  /\ declPath' = [declPath EXCEPT ![t] = declPath[f] \o path]
  /\ declQuery' = [declQuery EXCEPT ![t] = declQuery[f] \o query]
  /\ early' = [early EXCEPT ![t] = early[f] \o stage]
  /\ credDecl' = [credDecl EXCEPT ![t] = credDecl[f] \/ cred]

\* GET()
DeclareMethod(f, t) ==
  /\ \E m \in MethodCalls :
       /\ CanCall(f, t, m)
       /\ Keep(t, m, IF m = "GET" THEN GET(steps[f].ct) ELSE POST(steps[f].ct),
               steps[f].path, steps[f].query, heap)
  /\ Declared(f, t, <<>>, <<>>, <<"method">>, FALSE)
  /\ UNCHANGED <<curlVars, urlVars>>

\* HTTPS()
DeclareScheme(f, t) ==
  /\ \E m \in SchemeCalls :
       /\ CanCall(f, t, m)
       /\ Keep(t, m,
               IF m = "HTTP" THEN HTTP(steps[f].ct) ELSE HTTPS(steps[f].ct),
               steps[f].path, steps[f].query, heap)
  /\ Declared(f, t, <<>>, <<>>, <<"scheme">>, FALSE)
  /\ UNCHANGED <<curlVars, urlVars>>

\* Localhost(), which is Host("localhost")
DeclareHost(f, t) ==
  /\ CanCall(f, t, "Localhost")
  /\ Keep(t, "Localhost", Localhost(steps[f].ct), steps[f].path,
          steps[f].query, heap)
  /\ Declared(f, t, <<>>, <<>>, <<"host">>, FALSE)
  /\ UNCHANGED <<curlVars, urlVars>>

\* Port(port)
DeclarePort(f, t) ==
  /\ CanCall(f, t, "Port")
  /\ \E port \in Ports :
       Keep(t, "Port", Port(steps[f].ct, port), steps[f].path,
            steps[f].query, heap)
  /\ Declared(f, t, <<>>, <<>>, <<>>, FALSE)
  /\ UNCHANGED <<curlVars, urlVars>>

\* PathSegment(name), PathParam(name): the Variable is appended to the
\* receiver's path slice.
DeclarePath(f, t) ==
  /\ \E v \in PathDecls :
       LET step == IF v.kind = "pathSegment" THEN "PathSegment"
                   ELSE "PathParam"
           r == append(heap, steps[f].path, v)
       IN  /\ CanCall(f, t, step)
           /\ Keep(t, step, steps[f].ct, r.slice, steps[f].query, r.heap)
           /\ Declared(f, t, <<v>>, <<>>, <<>>, FALSE)
  /\ UNCHANGED <<curlVars, urlVars>>

\* QuerySegment(name, value), QueryParam(name): the Variable is appended to
\* the receiver's query slice.
DeclareQuery(f, t) ==
  /\ \E v \in QueryDecls :
       LET step == IF v.kind = "querySegment" THEN "QuerySegment"
                   ELSE "QueryParam"
           r == append(heap, steps[f].query, v)
       IN  /\ CanCall(f, t, step)
           /\ Keep(t, step, steps[f].ct, steps[f].path, r.slice, r.heap)
           /\ Declared(f, t, <<>>, <<v>>, <<>>, FALSE)
  /\ UNCHANGED <<curlVars, urlVars>>

\* Header(header)
DeclareHeader(f, t) ==
  /\ CanCall(f, t, "Header")
  /\ Keep(t, "Header", Header(steps[f].ct, JSONHeader), steps[f].path,
          steps[f].query, heap)
  /\ Declared(f, t, <<>>, <<>>, <<>>, FALSE)
  /\ UNCHANGED <<curlVars, urlVars>>

\* Credentials(username, password)
DeclareCredentials(f, t) ==
  /\ CanCall(f, t, "Credentials")
  /\ \E c \in CredentialPairs :
       Keep(t, "Credentials",
            Credentials(steps[f].ct, c.username, c.password),
            steps[f].path, steps[f].query, heap)
  /\ Declared(f, t, <<>>, <<>>, <<>>, TRUE)
  /\ UNCHANGED <<curlVars, urlVars>>

\* ResultExtractor(r)
DeclareResultExtractor(f, t) ==
  /\ CanCall(f, t, "ResultExtractor")
  /\ Keep(t, "ResultExtractor",
          ResultExtractor(steps[f].ct, "PlainStringExtractor"),
          steps[f].path, steps[f].query, heap)
  /\ Declared(f, t, <<>>, <<>>, <<>>, FALSE)
  /\ UNCHANGED <<curlVars, urlVars>>

\* Build(): the receiver's copy is captured by the CurlFunc it returns.
\* The caller builds last: it lets go of the builder values it holds.
BuildCurlFunc(f) ==
  /\ steps[f] # NoStep
  /\ "Build" \in MethodSet(steps[f].stage)
  /\ View(heap, steps[f]).error = NoError
  /\ built' = View(heap, steps[f])
  /\ ct' = built'
  /\ steps' = [s \in Holders |-> NoStep]
  /\ heap' = <<>>
  /\ declPath' = [s \in Holders |-> <<>>]
  /\ declQuery' = [s \in Holders |-> <<>>]
  /\ early' = [s \in Holders |-> <<>>]
  /\ credDecl' = [s \in Holders |-> FALSE]
  /\ UNCHANGED <<jsonVars, pc, args, snap, ghostVars, req, resp, ret, calls,
                 connVars, onlyFull, bodyVars, nsteps, urlVars>>

\* The caller chains builder steps, keeps intermediate values and branches
\* from them.
BuilderNext ==
  \E f, t \in Holders :
    \/ DeclareMethod(f, t)
    \/ DeclareScheme(f, t)
    \/ DeclareHost(f, t)
    \/ DeclarePort(f, t)
    \/ DeclarePath(f, t)
    \/ DeclareQuery(f, t)
    \/ DeclareHeader(f, t)
    \/ DeclareCredentials(f, t)
    \/ DeclareResultExtractor(f, t)
    \/ BuildCurlFunc(f)

\* No CurlFunc has been built.
BuilderStart == CurlInit({Builder}) /\ BuilderInit /\ UrlIdle

BuilderSpec == BuilderStart /\ [][BuilderNext]_vars

\* ------------------------------------------------------------- urlString

\* The urlTemplates given to urlString: path and query lists of declared
\* Variables, among them segments with an empty name and with a name that
\* ends in "/".
Str_slash == <<"a", "/">>
UrlPorts == {0, 80, 17500}
UrlPathVars ==
  {pathSegment(Str_q), pathSegment(<<>>), pathSegment(Str_slash),
   pathParam(Str_id)}
UrlQueryVars ==
  {querySegment(Str_id, Str_1), querySegment(<<>>, <<>>), queryParam(Str_q)}
UrlValues == {<<>>, Str_a, Str_b}
UrlTemplates ==
  [scheme : {Str_https}, host : {Str_localhost}, port : UrlPorts,
   path : SeqsUpTo(UrlPathVars, MaxVars),
   query : SeqsUpTo(UrlQueryVars, MaxVars)]

UrlInit ==
  /\ ut \in UrlTemplates
  /\ url = <<>>

\* bindTo on the k-th path Variable, as a PathArg does it.
BindPath(k) ==
  /\ k \in 1..Len(ut.path)
  /\ CanBind(ut.path[k])
  /\ \E v \in UrlValues \ {ut.path[k].value} :
       ut' = [ut EXCEPT !.path[k] = bindTo(@, v)]
  /\ url' = <<>>
  /\ UNCHANGED <<curlVars, buildVars>>

\* bindTo on the k-th query Variable, as a QueryArg does it.
BindQuery(k) ==
  /\ k \in 1..Len(ut.query)
  /\ CanBind(ut.query[k])
  /\ \E v \in UrlValues \ {ut.query[k].value} :
       ut' = [ut EXCEPT !.query[k] = bindTo(@, v)]
  /\ url' = <<>>
  /\ UNCHANGED <<curlVars, buildVars>>

\* urlString(ut)
Assemble ==
  /\ url = <<>>
  /\ url' = urlString(ut)
  /\ ut' = ut
  /\ UNCHANGED <<curlVars, buildVars>>

UrlNext ==
  \/ \E k \in 1..MaxVars : BindPath(k)
  \/ \E k \in 1..MaxVars : BindQuery(k)
  \/ Assemble

UrlStart == CurlInit({Builder}) /\ BuilderInit /\ UrlInit

UrlSpec == UrlStart /\ [][UrlNext]_vars

\* ------------------------------------------------------------------- claims

\* The invocation of goroutine i has called the Connector's Send.
Sent(i) ==
  \/ pc[i] \in {"extract", "close"}
  \/ pc[i] = "done" /\ (ret[i].err = TransportError \/ ret[i].status # 0)

\* Every invocation begun is still running: none follows another.
AllFirst == calls = Cardinality({i \in Procs : pc[i] # "idle"})

\* C1: the URL an invocation assembles is the URL of the Build-time template
\* with that invocation's own Arguments applied; a parameter only an earlier
\* invocation bound is omitted.
C1_UrlFromOwnArgs ==
  \A i \in Procs :
    pc[i] = "send" => req[i].url = urlString(own[i].urlTemplate)

\* C2: of invocations running concurrently, each passes to the Connector the
\* request made of the Build-time template and its own Arguments.
C2_ConcurrentRequestFromOwnArgs ==
  \A i \in Procs :
    (AllFirst /\ pc[i] = "send") => req[i] = createRequest(own[i])

\* C3: the captured template keeps the path and query Variables, the header
\* mapping, the body and the error it had when Build returned.
C3_CapturedTemplateUnchanged ==
  /\ ct.urlTemplate = built.urlTemplate
  /\ ct.header.kv = built.header.kv
  /\ ct.body = built.body
  /\ ct.error = built.error

\* The value the PathArgs as give to the parameter name.
ValueOf(as, name) == as[CHOOSE j \in 1..Len(as) : as[j].name = name].value

\* The URL of a template whose path parameters all have the values of as and
\* whose query parameters have none: every path Variable in declaration
\* order after a "/", then the static query pairs.
RECURSIVE ExpectedPath(_, _)
ExpectedPath(vs, as) ==
  IF vs = <<>> THEN <<>>
  ELSE <<"/">>
         \o (IF Head(vs).kind = "pathSegment" THEN Head(vs).name
             ELSE PathEscape(ValueOf(as, Head(vs).name)))
         \o ExpectedPath(Tail(vs), as)

RECURSIVE ExpectedQuery(_, _)
ExpectedQuery(vs, first) ==
  IF vs = <<>> THEN <<>>
  ELSE IF Head(vs).kind = "querySegment"
  THEN <<IF first THEN "?" ELSE "&">>
         \o QueryEscape(Head(vs).name) \o <<"=">> \o QueryEscape(Head(vs).value)
         \o ExpectedQuery(Tail(vs), FALSE)
  ELSE ExpectedQuery(Tail(vs), first)

ExpectedUrl(t, as) ==
  t.urlTemplate.scheme \o <<":", "/", "/">> \o t.urlTemplate.host
    \o (IF t.urlTemplate.port = 0 THEN <<>>
        ELSE <<":">> \o FormatUint(t.urlTemplate.port))
    \o ExpectedPath(t.urlTemplate.path, as)
    \o ExpectedQuery(t.urlTemplate.query, TRUE)

\* C4: when the invocations of a CurlFunc each bind all N path parameters
\* with PathArgs, every one of them assembles a URL, and its URL holds
\* exactly its own values in declaration order.
C4_FullBindingOwnValues ==
  \A i \in Procs :
    (onlyFull /\ FullPathBinding(built, given[i])) =>
      /\ failedArg[i] = NoArg
      /\ pc[i] # "fail"
      /\ (pc[i] = "done" => Sent(i))
      /\ (pc[i] = "send" => req[i].url = ExpectedUrl(built, given[i]))

\* C4's case: the second of two invocations that bind both path parameters
\* of a template, with other values than the first, is about to send.
C4_Witness ==
  \E i \in Procs :
    /\ onlyFull
    /\ FullPathBinding(built, given[i])
    /\ Cardinality(PathParams(built)) = 2
    /\ calls = 2
    /\ sendCount = 1
    /\ pc[i] = "send"
    /\ \E first \in BindArgLists :
         /\ FullPathBinding(built, first)
         /\ \A n \in ArgNames : ValueOf(first, n) # ValueOf(given[i], n)
         /\ lastSent.url = ExpectedUrl(built, first)

\* C5: an invocation whose PathArg or QueryArg found no bindable parameter
\* of its name returns a binding error that names the parameter.
C5_BindingErrorReturned ==
  \A i \in Procs :
    (pc[i] = "done" /\ failedArg[i].type \in {"PathArg", "QueryArg"}) =>
      /\ ret[i].err.kind \in {"path", "query"}
      /\ ret[i].err.name = failedArg[i].name

\* C6: an invocation one of whose Arguments failed never calls the
\* Connector's Send and returns (0, nil, error).
C6_NoSendAfterArgFailure ==
  \A i \in Procs :
    failedArg[i] # NoArg =>
      /\ pc[i] \notin {"create", "send"}
      /\ ~Sent(i)
      /\ (pc[i] = "done" =>
            /\ ret[i].status = 0
            /\ ~ret[i].hasValue
            /\ ret[i].err # NoError)

\* C7: however often, and however concurrently, the JSONBodyArg is applied,
\* json.Marshal runs at most once for it.
C7_EncodeAtMostOnce == encodes <= 1

\* C7's case: both goroutines have applied the JSONBodyArg in invocations
\* that overlap, and it has been encoded.
C7_Witness ==
  /\ encodes = 1
  /\ \A i \in Procs : usedJSON[i] /\ pc[i] = "store"

\* C8: once the JSONBodyArg has been encoded, every application of it sets
\* the snapshot's body to the encoded bytes.
C8_MemoizedBytesReused ==
  \A i \in Procs :
    (/\ usedJSON[i]
     /\ Len(given[i]) = 1
     /\ failedArg[i] = NoArg
     /\ encoded.err = NoError
     /\ pc[i] = "store") =>
      snap[i].body = [nil |-> FALSE, bytes |-> encoded.bs]

\* C9: when encoding the JSONBodyArg failed, every application of it fails,
\* and no invocation that applied it calls the Connector.
C9_EncodeFailurePermanent ==
  \A i \in Procs :
    (usedJSON[i] /\ encoded.err # NoError) =>
      /\ failedArg[i] = JSONBodyArg
      /\ pc[i] \notin {"create", "send"}
      /\ ~Sent(i)

\* C10: the body bytes the JSONBodyArg gives an invocation are the encoding
\* of the payload as it was when JSONBodyArg(body) returned.
C10_PayloadAsConstructed ==
  \A i \in Procs :
    (/\ usedJSON[i]
     /\ Len(given[i]) = 1
     /\ failedArg[i] = NoArg
     /\ pc[i] = "store") =>
      snap[i].body = [nil |-> FALSE, bytes |-> Marshal(payload0).bs]

\* The holders that hold a value.
Held == {s \in Holders : steps[s] # NoStep}

\* C11: the path and query lists of every builder value the caller holds
\* are exactly the Variables declared on the way to it, in order, whatever
\* other values were derived from the same intermediate values.
C11_BranchesIndependent ==
  \A s \in Held :
    /\ Elems(heap, steps[s].path) = declPath[s]
    /\ Elems(heap, steps[s].query) = declQuery[s]

\* The declarative steps.
DeclarativeSteps ==
  {"PathSegment", "PathParam", "QuerySegment", "QueryParam", "Header",
   "Credentials", "ResultExtractor"}

\* The host was declared on the way to the value held in s.
AfterHost(s) == Len(early[s]) > 0 /\ early[s][Len(early[s])] = "host"

\* C12: every value held after the host was declared exposes all the
\* declarative steps, and Build.
C12_AnyOrderAfterHost ==
  \A s \in Held :
    AfterHost(s) => DeclarativeSteps \cup {"Build"} \subseteq MethodSet(steps[s].stage)

\* C13: a held value exposes Build exactly when the host was declared on
\* the way to it, and the method, scheme and host steps on the way to any
\* held value are a beginning of: method, scheme, host.
C13_BuildOnlyAfterHost ==
  \A s \in Held :
    /\ ("Build" \in MethodSet(steps[s].stage)) <=> AfterHost(s)
    /\ early[s] \in {<<>>, <<"method">>, <<"method", "scheme">>,
                     <<"method", "scheme", "host">>}

\* C13's case: the caller holds a value before the host step, without
\* Build, and a value after the last declarative step, with Build.
C13_Witness ==
  \E s, t \in Held :
    /\ steps[s].stage = "DefineHost"
    /\ "Build" \notin MethodSet(steps[s].stage)
    /\ steps[t].stage = "BuildCurl"
    /\ "Build" \in MethodSet(steps[t].stage)

\* C20: a template on which Credentials was called differs in its
\* credentials from one on which it was not.
C20_EmptyCredentialsDistinct ==
  \A s, t \in Held :
    (credDecl[s] /\ ~credDecl[t]) =>
      steps[s].ct.credentials # steps[t].ct.credentials

\* C14: an invocation closes the response body at most once and only after
\* its Result Extractor has run; when it returns with a response the body
\* has been closed, whether or not extraction failed, and when it returns
\* without one (the Connector failed) nothing has been closed.
C14_BodyClosedOnce ==
  \A i \in Procs :
    /\ closed[i] <= 1
    /\ closed[i] = 1 => extracted[i] = 1
    /\ pc[i] = "done" => closed[i] = (IF resp[i] # NoResponse THEN 1 ELSE 0)

\* C14's case: an invocation whose extraction failed is about to return,
\* the body closed.
C14_Witness ==
  \E i \in Procs :
    /\ pc[i] = "done"
    /\ resp[i] # NoResponse
    /\ ret[i].err = DecodingError
    /\ extracted[i] = 1
    /\ closed[i] = 1

\* C15: an invocation whose Connector answered and whose Result Extractor
\* failed returns the response's status code, no value and the extractor's
\* error; an invocation that returns an error with a status code other than
\* 0 is such an invocation.
C15_StatusWithDecodingError ==
  \A i \in Procs :
    pc[i] = "done" =>
      /\ (resp[i] # NoResponse
            /\ Result(own[i].resultExtractor, resp[i]).err # NoError) =>
           /\ ret[i].status = resp[i].status
           /\ ~ret[i].hasValue
           /\ ret[i].err = Result(own[i].resultExtractor, resp[i]).err
      /\ (ret[i].err # NoError /\ ret[i].status # 0) =>
           /\ resp[i] # NoResponse
           /\ ret[i].err.kind = "decoding"
      /\ ret[i].err.kind \in {"path", "query", "json", "assembly",
                              "transport"} => ret[i].status = 0

\* C15's case: an invocation returns status 200 with a decoding error.
C15_Witness ==
  \E i \in Procs :
    /\ pc[i] = "done"
    /\ ret[i].status = 200
    /\ ~ret[i].hasValue
    /\ ret[i].err.kind = "decoding"

\* C16: an invocation whose Connector failed does not run the Result
\* Extractor and returns (0, nil, the Connector's error).
C16_NoExtractAfterTransportError ==
  \A i \in Procs :
    ret[i].err = TransportError =>
      /\ pc[i] = "done"
      /\ extracted[i] = 0
      /\ ret[i] = [NoReturn EXCEPT !.err = TransportError]

\* C16's case: the Connector was called and the invocation returns its
\* error.
C16_Witness ==
  \E i \in Procs :
    /\ pc[i] = "done"
    /\ ret[i].err = TransportError
    /\ lastSent = req[i]
    /\ sendCount > 0

\* The pretty-printed {"success": true}.
Str_pretty ==
  <<"{", "\n", " ", " ", "\"", "s", "u", "c", "c", "e", "s", "s", "\"", ":",
    " ", "t", "r", "u", "e", "\n", "}">>
Str_testUrl ==
  <<"h", "t", "t", "p", "s", ":", "/", "/", "l", "o", "c", "a", "l", "h", "o",
    "s", "t", ":", "1", "7", "5", "0", "0">>

\* C17: the first invocation, without Arguments, of the CurlFunc built from
\* GET, https, localhost, 17500 calls the Connector once, with a GET request
\* for https://localhost:17500 without body, header or basic auth, and when
\* the answer is 200 with body {"success": true} it returns 200, the
\* pretty-printed body and no error.
C17_SimpleUrlScenario ==
  \A i \in Procs :
    (/\ built = TestTemplate
     /\ calls = 1
     /\ given[i] = <<>>
     /\ pc[i] = "done") =>
      /\ sendCount = 1
      /\ lastSent.method = Str_GET
      /\ lastSent.url = Str_testUrl
      /\ lastSent.body = NilBody
      /\ lastSent.header = <<>>
      /\ ~lastSent.basicAuth
      /\ resp[i] = [status |-> 200, body |-> Str_success] =>
           ret[i] = [status |-> 200, value |-> Str_pretty, hasValue |-> TRUE,
                     err |-> NoError]

\* C17's case: that invocation is about to return 200 and a value.
C17_Witness ==
  \E i \in Procs :
    /\ built = TestTemplate
    /\ calls = 1
    /\ given[i] = <<>>
    /\ pc[i] = "done"
    /\ resp[i] = [status |-> 200, body |-> Str_success]
    /\ ret[i].hasValue

\* The non-empty renderings of the Variables vs, in order.
Renderings(vs) ==
  SelectSeq([k \in 1..Len(vs) |-> String(vs[k])], LAMBDA r : r # <<>>)

\* Each of rs after one lead, the first time first.
RECURSIVE Joined(_, _, _)
Joined(rs, first, sep) ==
  IF rs = <<>> THEN <<>>
  ELSE first \o Head(rs) \o Joined(Tail(rs), sep, sep)

Contains(s, sub) ==
  \E k \in 1..(Len(s) - Len(sub) + 1) : SubSeq(s, k, k + Len(sub) - 1) = sub
EndsWith(s, c) == Len(s) > 0 /\ s[Len(s)] = c

\* The URL after "scheme://".
AfterScheme(t, u) == SubSeq(u, Len(t.scheme) + 4, Len(u))

\* The assembled URL u of the urlTemplate t is scheme, host and port, then
\* "/" and the non-empty path renderings joined by "/", then "?" and the
\* non-empty query renderings joined by "&"; after "://" it has no empty
\* path segment ("//"), no trailing "/", no "?&", "&&" or trailing "&", and
\* no dangling "?".
NoGaps(t, u) ==
    /\ u = t.scheme \o <<":", "/", "/">> \o t.host \o portString(t.port)
               \o Joined(Renderings(t.path), <<"/">>, <<"/">>)
               \o Joined(Renderings(t.query), <<"?">>, <<"&">>)
    /\ ~Contains(AfterScheme(t, u), <<"/", "/">>)
    /\ ~EndsWith(u, "/")
    /\ ~Contains(u, <<"?", "&">>)
    /\ ~Contains(u, <<"&", "&">>)
    /\ ~EndsWith(u, "&")
    /\ ~EndsWith(u, "?")

\* No path Variable of t renders to text that itself holds "/", "?" or "&".
PlainPath(t) ==
  \A k \in 1..Len(t.path) :
    \A j \in 1..Len(String(t.path[k])) :
      String(t.path[k])[j] \notin {"/", "?", "&"}

\* C18, as stated: whatever the path and query Variables and their
\* bindings, the assembled URL is made of the non-empty renderings only
\* and has no empty path segment, trailing "/", leading, trailing or
\* doubled "&", or dangling "?".
C18_EmptyRenderingsOmitted == url # <<>> => NoGaps(ut, url)

\* C18, amended: the same, for the urlTemplates none of whose path
\* Variables renders to text that itself holds "/", "?" or "&".
C18_OmissionLeavesNoGap == (url # <<>> /\ PlainPath(ut)) => NoGaps(ut, url)

\* C18's case: urlString has assembled a URL from path and query lists
\* that both have a Variable with an empty rendering after one with a
\* non-empty rendering.
C18_Witness ==
  /\ url # <<>>
  /\ PlainPath(ut)
  /\ Len(ut.path) = 2 /\ String(ut.path[1]) # <<>> /\ String(ut.path[2]) = <<>>
  /\ Len(ut.query) = 2 /\ String(ut.query[1]) # <<>>
  /\ String(ut.query[2]) = <<>>

\* C19: after scheme://host the assembled URL goes on with ":" and the
\* decimal port exactly when the port is not 0.
C19_PortIffNonzero ==
  url # <<>> =>
    LET base == ut.scheme \o <<":", "/", "/">> \o ut.host
        after == SubSeq(url, Len(base) + 1, Len(url))
        rendered == <<":">> \o FormatUint(ut.port)
    IN  /\ SubSeq(url, 1, Len(base)) = base
        /\ ut.port # 0 <=>
             (/\ Len(after) >= Len(rendered)
              /\ SubSeq(after, 1, Len(rendered)) = rendered)
        /\ ut.port = 0 => (after = <<>> \/ after[1] # ":")

\* C19's case: urlString has assembled a URL with a port, a path and a
\* query.
C19_Witness ==
  /\ url # <<>>
  /\ ut.port = 17500
  /\ Renderings(ut.path) # <<>>
  /\ Renderings(ut.query) # <<>>
  /\ Contains(url, <<":", "1", "7", "5", "0", "0", "/">>)

\* The request r carries an Authorization header: the one SetBasicAuth
\* sets, or one among the header entries copied from the template.
HasAuthorization(r) == r.basicAuth \/ Str_Authorization \in DOMAIN r.header

\* C21: the request an invocation passes to the Connector carries an
\* Authorization header exactly when the Credentials declared on the
\* template have a non-empty username or a non-empty password, and then it
\* is basic auth with the declared pair.
C21_BasicAuthIffNonEmpty ==
  \A i \in Procs :
    pc[i] = "send" =>
      /\ HasAuthorization(req[i]) <=>
           (built.credentials.username # <<>> \/ built.credentials.password # <<>>)
      /\ req[i].basicAuth => req[i].credentials = built.credentials

\* C21's case: requests are about to be sent for a template with a
\* password only, and for one with Credentials("", "").
C21_Witness ==
  \E i \in Procs :
    /\ pc[i] = "send"
    /\ built = PasswordTemplate
    /\ req[i].basicAuth
    /\ req[i].credentials = [username |-> <<>>, password |-> Str_p]

\* The first parameter of vs with that name, in declaration order: its
\* index, 0 when vs has none.
FirstParam(vs, name) ==
  LET K == {k \in 1..Len(vs) :
              vs[k].name = name /\ vs[k].kind \in {"pathParam", "queryParam"}}
  IN  IF K = {} THEN 0 ELSE CHOOSE k \in K : \A j \in K : k <= j

\* C22: applying PathArg(name, v) to a snapshot gives the first path
\* parameter of that name the value v and leaves every other path Variable
\* and the query list as they were; without such a parameter it leaves both
\* lists as they were; QueryArg does the same with the query list.
C22_BindsFirstParamOnly ==
  [][\A i \in Procs :
       (/\ pc[i] = "apply"
        /\ args'[i] # args[i]
        /\ Head(args[i]).type \in {"PathArg", "QueryArg"}) =>
         LET a == Head(args[i])
             isPath == a.type = "PathArg"
             before == snap[i].urlTemplate
             after == snap'[i].urlTemplate
             mine == IF isPath THEN before.path ELSE before.query
             mineAfter == IF isPath THEN after.path ELSE after.query
             other == IF isPath THEN before.query ELSE before.path
             otherAfter == IF isPath THEN after.query ELSE after.path
             k == FirstParam(mine, a.name)
         IN  /\ otherAfter = other
             /\ Len(mineAfter) = Len(mine)
             /\ \A j \in 1..Len(mine) :
                  mineAfter[j] = IF j = k THEN [mine[j] EXCEPT !.value = a.value]
                                 ELSE mine[j]
             /\ (k = 0) <=> (failedArg'[i] = a)]_vars

\* C22's case: PathArg("id", "a") and QueryArg("q", "b ") have been applied
\* to a snapshot of the template that declares a segment and two
\* parameters of each name: the first parameter of each list has the value,
\* the second has none.
C22_Witness ==
  \E i \in Procs :
    /\ built = DupTemplate
    /\ calls = 1
    /\ pc[i] = "store"
    /\ given[i] = <<PathArg(Str_id, Str_a), QueryArg(Str_q, Str_b)>>
    /\ failedArg[i] = NoArg
    /\ snap[i].urlTemplate.path =
         <<pathSegment(Str_id), [pathParam(Str_id) EXCEPT !.value = Str_a],
           pathParam(Str_id)>>
    /\ snap[i].urlTemplate.query =
         <<querySegment(Str_q, Str_1), [queryParam(Str_q) EXCEPT !.value = Str_b],
           queryParam(Str_q)>>

\* The error the Arg a returns when its application fails.
ErrorOf(a) ==
  CASE a.type = "PathArg" -> BindError("path", a.name, a.value)
    [] a.type = "QueryArg" -> BindError("query", a.name, a.value)
    [] OTHER -> MarshalError

IsPrefix(p, q) == Len(p) <= Len(q) /\ p = SubSeq(q, 1, Len(p))

\* complete's loop has ended in the invocation of goroutine i.
LoopEnded(i) == pc[i] \notin {"idle", "complete", "apply"}

\* C23: the Arguments applied are at any time the first ones of those
\* given, in their order; when none failed the loop ends with all applied;
\* when one failed it is the last one applied, the loop has ended, the
\* snapshot holds its error, and the invocation returns that error.
C23_InOrderFailFast ==
  \A i \in Procs :
    /\ IsPrefix(applied[i], given[i])
    /\ (LoopEnded(i) /\ failedArg[i] = NoArg) => applied[i] = given[i]
    /\ failedArg[i] # NoArg =>
         /\ applied[i] # <<>>
         /\ applied[i][Len(applied[i])] = failedArg[i]
         /\ LoopEnded(i)
         /\ pc[i] = "store" => snap[i].error = ErrorOf(failedArg[i])
         /\ pc[i] = "done" => ret[i].err = ErrorOf(failedArg[i])

\* The position in as of the first Arg of the type and name of as[j].
FirstOfName(as, j) ==
  CHOOSE m \in 1..j :
    /\ as[m].type = as[j].type /\ as[m].name = as[j].name
    /\ \A n \in 1..(m - 1) : as[n].type # as[j].type \/ as[n].name # as[j].name

\* C24: when complete's loop has applied all the PathArgs and QueryArgs of
\* an invocation, the parameter each of them names holds the value of the
\* first Argument of this invocation that named it.
C24_BoundOncePerInvocation ==
  \A i \in Procs :
    (pc[i] = "store" /\ failedArg[i] = NoArg) =>
      \A j \in 1..Len(applied[i]) :
        LET a == applied[i][j]
            vs == IF a.type = "PathArg" THEN snap[i].urlTemplate.path
                  ELSE snap[i].urlTemplate.query
            k == FirstParam(vs, a.name)
        IN  (a.type \in {"PathArg", "QueryArg"} /\ k > 0) =>
              vs[k].value = applied[i][FirstOfName(applied[i], j)].value

\* C25: the request of an invocation that was given no JSONBodyArg has no
\* body, and its header entries are those declared at build time.
C25_BodyAndHeaderConfined ==
  \A i \in Procs :
    (pc[i] = "send" /\ \A j \in 1..Len(given[i]) : given[i][j] # JSONBodyArg) =>
      /\ req[i].body = NilBody
      /\ req[i].header = built.header.kv

\* C26: an invocation none of whose own Arguments failed does not take the
\* error return, calls the Connector, and returns no binding or encoding
\* error.
C26_FailureNotCarriedOver ==
  \A i \in Procs :
    (LoopEnded(i) /\ failedArg[i] = NoArg) =>
      /\ pc[i] # "fail"
      /\ pc[i] = "done" =>
           /\ Sent(i)
           /\ ret[i].err.kind \notin {"path", "query", "json"}

====
